---- MODULE Spec2Model ----
(***************************************************************************)
(* recaptcha-verify: response classification of the legacy (v2/v3) flow    *)
(* and of the enterprise flow, and the string conversions of the closed    *)
(* enterprise vocabularies.                                                *)
(*                                                                         *)
(* One call is in progress at a time.  A verification call suspends twice: *)
(* awaiting send() and awaiting the response body (json() / text()).  The  *)
(* transport decides, at each of the two points, whether it succeeds.      *)
(***************************************************************************)
EXTENDS Integers, Sequences, FiniteSets, TLC

VARIABLES pc, call, request, sendRes, bodyRes, ret, conv

vars == <<pc, call, request, sendRes, bodyRes, ret, conv>>

\* ---------------------------------------------------------------- bounds
\* longest error-codes list a response body carries
MaxCodes == 2

\* ------------------------------------------------------- generic encodings
\* Option<String>: None is this marker, Some(s) is s
None == "None"

Ok(v) == [ok |-> TRUE, val |-> v]
Err(e) == [ok |-> FALSE, val |-> e]

\* how reqwest reports a failure: while connecting/sending, while reading the
\* body, because the client's deadline elapsed, or while decoding the body
SendFailures == {"connect", "timeout"}
BodyFailures == {"body", "timeout"}

\* HTTP statuses the services answer with
HttpStatuses == {200, 400}

\* ------------------------------------------------------------ legacy flow
LegacyCodes ==
    {"missing-input-secret", "invalid-input-secret", "missing-input-response",
     "invalid-input-response", "bad-request", "timeout-or-duplicate"}

\* code strings a response may carry: the recognised ones and a foreign one
WireCodes == LegacyCodes \cup {"trololo-detected"}

RECURSIVE SeqsUpTo(_, _)
SeqsUpTo(S, n) ==
    IF n = 0 THEN {<<>>}
    ELSE LET shorter == SeqsUpTo(S, n - 1)
         IN  shorter \cup {Append(q, x) : q \in {r \in shorter : Len(r) = n - 1}, x \in S}

\* A legacy response body as the server wrote it.  wf: it is a JSON object;
\* success: the "success" member is missing, a boolean, or of another type;
\* codes: the "error-codes" member is missing, null, a list of strings
\* (list), or of another type; extra: the type of the uninterpreted members
\* challenge_ts / hostname / apk_package_name.
LegacyBodies ==
    {[wf |-> FALSE, success |-> "absent", codes |-> "absent", list |-> <<>>, extra |-> "absent"]}
    \cup
    {[wf |-> TRUE, success |-> s, codes |-> c, list |-> <<>>, extra |-> x] :
        s \in {"absent", "true", "false", "other"},
        c \in {"absent", "null", "other"},
        x \in {"absent", "str", "num"}}
    \cup
    {[wf |-> TRUE, success |-> s, codes |-> "list", list |-> l, extra |-> x] :
        s \in {"absent", "true", "false", "other"},
        l \in SeqsUpTo(WireCodes, MaxCodes),
        x \in {"absent", "str", "num"}}

\* RecaptchaError: tag is the variant, code the payload of Unknown / HttpError
RecaptchaError(tag, code) == [tag |-> tag, code |-> code]

\* v3.rs: impl TryFrom<String> for RecaptchaError
RecaptchaError_try_from(value) ==
    Ok(CASE value = "missing-input-secret" -> RecaptchaError("MissingInputSecret", None)
         [] value = "invalid-input-secret" -> RecaptchaError("InvalidInputSecret", None)
         [] value = "missing-input-response" -> RecaptchaError("MissingInputResponse", None)
         [] value = "invalid-input-response" -> RecaptchaError("InvalidInputResponse", None)
         [] value = "bad-request" -> RecaptchaError("BadRequest", None)
         [] value = "timeout-or-duplicate" -> RecaptchaError("TimeoutOrDuplicate", None)
         [] OTHER -> RecaptchaError("Unknown", value))

\* lib.rs: impl TryFrom<String> for RecaptchaError
lib_RecaptchaError_try_from(value) ==
    Ok(CASE value = "missing-input-secret" -> RecaptchaError("MissingInputSecret", None)
         [] value = "invalid-input-secret" -> RecaptchaError("InvalidInputSecret", None)
         [] value = "missing-input-response" -> RecaptchaError("MissingInputResponse", None)
         [] value = "invalid-input-response" -> RecaptchaError("InvalidInputResponse", None)
         [] value = "bad-request" -> RecaptchaError("BadRequest", None)
         [] value = "timeout-or-duplicate" -> RecaptchaError("TimeoutOrDuplicate", None)
         [] OTHER -> RecaptchaError("Unknown", value))

\* Option<Vec<String>>
NoVec == [some |-> FALSE, v |-> <<>>]
SomeVec(l) == [some |-> TRUE, v |-> l]

\* v3.rs: #[derive(Deserialize)] struct RecaptchaResult; members other than
\* success and error-codes are not fields and are skipped
RecaptchaResult(body) ==
    IF ~body.wf THEN Err("Syntax")
    ELSE IF body.success \notin {"true", "false"} THEN Err("Data")
    ELSE IF body.codes = "other" THEN Err("Data")
    ELSE Ok([success |-> body.success = "true",
             error_codes |-> IF body.codes = "list" THEN SomeVec(body.list) ELSE NoVec])

\* lib.rs: #[derive(Deserialize)] struct RecaptchaResult; challenge_ts,
\* hostname and apk_package_name are Option<String> fields
lib_RecaptchaResult(body) ==
    IF ~body.wf THEN Err("Syntax")
    ELSE IF body.success \notin {"true", "false"} THEN Err("Data")
    ELSE IF body.codes = "other" THEN Err("Data")
    ELSE IF body.extra = "num" THEN Err("Data")
    ELSE Ok([success |-> body.success = "true",
             error_codes |-> IF body.codes = "list" THEN SomeVec(body.list) ELSE NoVec])

\* v3.rs: response.json::<RecaptchaResult>().  reqwest reads the whole body,
\* then decodes it; either failure is a reqwest::Error.  The response's
\* status plays no part.
response_json(response, body_res) ==
    IF ~body_res.ok THEN Err(body_res.val)
    ELSE LET d == RecaptchaResult(body_res.val)
         IN  IF d.ok THEN d ELSE Err("decode")

\* lib.rs: response.json::<RecaptchaResult>()
lib_response_json(response, body_res) ==
    IF ~body_res.ok THEN Err(body_res.val)
    ELSE LET d == lib_RecaptchaResult(body_res.val)
         IN  IF d.ok THEN d ELSE Err("decode")

\* verify_v3 looking at the error codes before the success flag
verify_v3_codes_first(send_res, body_res) ==
    IF ~send_res.ok THEN Err(RecaptchaError("HttpError", send_res.val))
    ELSE LET parsed == response_json(send_res.val, body_res)
         IN  IF parsed.ok
             THEN LET result == parsed.val
                  IN  IF result.error_codes.some /\ result.error_codes.v # <<>>
                      THEN Err(RecaptchaError_try_from(Head(result.error_codes.v)).val)
                      ELSE IF result.success THEN Ok("()")
                      ELSE Err(RecaptchaError("Unknown", None))
             ELSE Err(RecaptchaError("Unknown", None))

\* verify_v3 taking the last error code instead of the first
verify_v3_last_code(send_res, body_res) ==
    IF ~send_res.ok THEN Err(RecaptchaError("HttpError", send_res.val))
    ELSE LET parsed == response_json(send_res.val, body_res)
         IN  IF parsed.ok
             THEN LET result == parsed.val
                  IN  IF result.success THEN Ok("()")
                      ELSE IF result.error_codes.some
                      THEN LET errs == result.error_codes.v
                           IN  IF errs = <<>> THEN Err(RecaptchaError("Unknown", None))
                               ELSE Err(RecaptchaError_try_from(errs[Len(errs)]).val)
                      ELSE Err(RecaptchaError("Unknown", None))
             ELSE Err(RecaptchaError("Unknown", None))

\* verify_v3 returning the error of json() with `?` as it does for send()
verify_v3_json_propagated(send_res, body_res) ==
    IF ~send_res.ok THEN Err(RecaptchaError("HttpError", send_res.val))
    ELSE LET parsed == response_json(send_res.val, body_res)
         IN  IF parsed.ok
             THEN LET result == parsed.val
                  IN  IF result.success THEN Ok("()")
                      ELSE IF result.error_codes.some
                      THEN LET errs == result.error_codes.v
                           IN  IF errs = <<>> THEN Err(RecaptchaError("Unknown", None))
                               ELSE Err(RecaptchaError_try_from(Head(errs)).val)
                      ELSE Err(RecaptchaError("Unknown", None))
             ELSE Err(RecaptchaError("HttpError", parsed.val))

\* v3.rs: verify_v3.  send_res is what send().await gave (Ok(response) or
\* Err(reqwest error)), body_res what reading the body gave.
verify_v3(send_res, body_res) ==
    IF ~send_res.ok THEN Err(RecaptchaError("HttpError", send_res.val))
    ELSE LET parsed == response_json(send_res.val, body_res)
         IN  IF parsed.ok
             THEN LET result == parsed.val
                  IN  IF result.success THEN Ok("()")
                      ELSE IF result.error_codes.some
                      THEN LET errs == result.error_codes.v
                           IN  IF errs = <<>> THEN Err(RecaptchaError("Unknown", None))
                               ELSE LET converted == RecaptchaError_try_from(Head(errs))
                                    IN  Err(converted.val)
                      ELSE Err(RecaptchaError("Unknown", None))
             ELSE Err(RecaptchaError("Unknown", None))

\* v3.rs: the deprecated verify, a plain wrapper
v3_verify(send_res, body_res) == verify_v3(send_res, body_res)

\* lib.rs: verify
verify(send_res, body_res) ==
    IF ~send_res.ok THEN Err(RecaptchaError("HttpError", send_res.val))
    ELSE LET parsed == lib_response_json(send_res.val, body_res)
         IN  IF parsed.ok
             THEN LET result == parsed.val
                  IN  IF result.success THEN Ok("()")
                      ELSE IF result.error_codes.some
                      THEN LET errs == result.error_codes.v
                           IN  IF Len(errs) = 0 THEN Err(RecaptchaError("Unknown", None))
                               ELSE LET converted == lib_RecaptchaError_try_from(errs[1])
                                    IN  Err(converted.val)
                      ELSE Err(RecaptchaError("Unknown", None))
             ELSE Err(RecaptchaError("Unknown", None))

\* -------------------------------------------------------- enterprise flow
UserActions ==
    {"Signup", "Login", "PasswordReset", "GetPrice", "CartAdd", "CartView",
     "PaymentAdd", "Checkout", "TransactionConfirmed", "PlaySong"}

InvalidReasons ==
    {"Automation", "UnexpectedEnvironment", "TooMuchTraffic",
     "UnexpectedUsagePatterns", "LowConfidenceScore", "Malformed"}

\* RecaptchaEntError: tag is the variant, payload what it carries
RecaptchaEntError(tag, payload) == [tag |-> tag, payload |-> payload]

\* ent.rs: impl TryFrom<String> for RecaptchaUserAction
RecaptchaUserAction_try_from(value) ==
    CASE value = "signup" -> Ok("Signup")
      [] value = "login" -> Ok("Login")
      [] value = "password_reset" -> Ok("PasswordReset")
      [] value = "get_price" -> Ok("GetPrice")
      [] value = "cart_add" -> Ok("CartAdd")
      [] value = "cart_view" -> Ok("CartView")
      [] value = "payment_add" -> Ok("PaymentAdd")
      [] value = "checkout" -> Ok("Checkout")
      [] value = "transaction_confirmed" -> Ok("TransactionConfirmed")
      [] value = "play_song" -> Ok("PlaySong")
      [] OTHER -> Err(RecaptchaEntError("InvalidUserAction", value))

\* Display for RecaptchaUserAction with one arm copied from its neighbour
RecaptchaUserAction_to_string_copied_arm(self) ==
    CASE self = "Signup" -> "signup"
      [] self = "Login" -> "login"
      [] self = "PasswordReset" -> "password_reset"
      [] self = "GetPrice" -> "get_price"
      [] self = "CartAdd" -> "cart_add"
      [] self = "CartView" -> "cart_add"
      [] self = "PaymentAdd" -> "payment_add"
      [] self = "Checkout" -> "checkout"
      [] self = "TransactionConfirmed" -> "transaction_confirmed"
      [] self = "PlaySong" -> "play_song"

\* ent.rs: impl Display for RecaptchaUserAction
RecaptchaUserAction_to_string(self) ==
    CASE self = "Signup" -> "signup"
      [] self = "Login" -> "login"
      [] self = "PasswordReset" -> "password_reset"
      [] self = "GetPrice" -> "get_price"
      [] self = "CartAdd" -> "cart_add"
      [] self = "CartView" -> "cart_view"
      [] self = "PaymentAdd" -> "payment_add"
      [] self = "Checkout" -> "checkout"
      [] self = "TransactionConfirmed" -> "transaction_confirmed"
      [] self = "PlaySong" -> "play_song"

\* ent.rs: impl TryFrom<String> for RecaptchaInvalidReason
RecaptchaInvalidReason_try_from(value) ==
    CASE value = "AUTOMATION" -> Ok("Automation")
      [] value = "UNEXPECTED_ENVIRONMENT" -> Ok("UnexpectedEnvironment")
      [] value = "TOO_MUCH_TRAFFIC" -> Ok("TooMuchTraffic")
      [] value = "UNEXPECTED_USAGE_PATTERNS" -> Ok("UnexpectedUsagePatterns")
      [] value = "LOW_CONFIDENCE_SCORE" -> Ok("LowConfidenceScore")
      [] value = "MALFORMED" -> Ok("Malformed")
      [] OTHER -> Err(RecaptchaEntError("UnknownReason", None))

\* ent.rs: impl Display for RecaptchaInvalidReason
RecaptchaInvalidReason_to_string(self) ==
    CASE self = "Automation" -> "AUTOMATION"
      [] self = "UnexpectedEnvironment" -> "UNEXPECTED_ENVIRONMENT"
      [] self = "TooMuchTraffic" -> "TOO_MUCH_TRAFFIC"
      [] self = "UnexpectedUsagePatterns" -> "UNEXPECTED_USAGE_PATTERNS"
      [] self = "LowConfidenceScore" -> "LOW_CONFIDENCE_SCORE"
      [] self = "Malformed" -> "MALFORMED"

\* ent.rs: #[derive(Deserialize)] #[serde(rename_all = "snake_case")] on
\* RecaptchaUserAction: a string is a variant's renamed identifier or the
\* value does not deserialize
RecaptchaUserAction_deserialize(value) ==
    CASE value = "signup" -> Ok("Signup")
      [] value = "login" -> Ok("Login")
      [] value = "password_reset" -> Ok("PasswordReset")
      [] value = "get_price" -> Ok("GetPrice")
      [] value = "cart_add" -> Ok("CartAdd")
      [] value = "cart_view" -> Ok("CartView")
      [] value = "payment_add" -> Ok("PaymentAdd")
      [] value = "checkout" -> Ok("Checkout")
      [] value = "transaction_confirmed" -> Ok("TransactionConfirmed")
      [] value = "play_song" -> Ok("PlaySong")
      [] OTHER -> Err("Data")

\* ent.rs: #[derive(Deserialize)] #[serde(rename_all = "SCREAMING_SNAKE_CASE")]
\* on RecaptchaInvalidReason
RecaptchaInvalidReason_deserialize(value) ==
    CASE value = "AUTOMATION" -> Ok("Automation")
      [] value = "UNEXPECTED_ENVIRONMENT" -> Ok("UnexpectedEnvironment")
      [] value = "TOO_MUCH_TRAFFIC" -> Ok("TooMuchTraffic")
      [] value = "UNEXPECTED_USAGE_PATTERNS" -> Ok("UnexpectedUsagePatterns")
      [] value = "LOW_CONFIDENCE_SCORE" -> Ok("LowConfidenceScore")
      [] value = "MALFORMED" -> Ok("Malformed")
      [] OTHER -> Err("Data")

\* Option<RecaptchaUserAction> field: a missing or null member is None
Option_RecaptchaUserAction_deserialize(value) ==
    IF value = None THEN Ok(None) ELSE RecaptchaUserAction_deserialize(value)

\* Option<RecaptchaInvalidReason> field
Option_RecaptchaInvalidReason_deserialize(value) ==
    IF value = None THEN Ok(None) ELSE RecaptchaInvalidReason_deserialize(value)

\* strings the service puts in tokenProperties.invalidReason: the six the
\* enum knows and one it does not
WireReasons ==
    {"AUTOMATION", "UNEXPECTED_ENVIRONMENT", "TOO_MUCH_TRAFFIC",
     "UNEXPECTED_USAGE_PATTERNS", "LOW_CONFIDENCE_SCORE", "MALFORMED", "EXPIRED"}

\* strings the service echoes in tokenProperties.action / event.expectedAction
WireActions == {"login", "homepage"}

\* the "event" member of an assessment: missing, or an object that has the
\* four required strings (complete) or lacks one, with its expectedAction
NoEvent == [present |-> FALSE, complete |-> FALSE, expectedAction |-> None]
WireEvents ==
    {NoEvent} \cup
    {[present |-> TRUE, complete |-> c, expectedAction |-> a] :
        c \in BOOLEAN, a \in WireActions \cup {None}}

\* the "tokenProperties" member
NoTokenProps == [present |-> FALSE, valid |-> "absent", invalidReason |-> None, action |-> None]
WireTokenProps ==
    {NoTokenProps} \cup
    {[present |-> TRUE, valid |-> v, invalidReason |-> r, action |-> a] :
        v \in {"absent", "true", "false"},
        r \in WireReasons \cup {None},
        a \in WireActions \cup {None}}

\* the "error" member: missing, the two envelopes the service documents, one
\* whose code is not a u32 and one without a message
NoApiError == [present |-> FALSE, code |-> 0, message |-> None, status |-> None]
WireApiErrors ==
    {NoApiError,
     [present |-> TRUE, code |-> 403, message |-> "API key not valid", status |-> "PERMISSION_DENIED"],
     [present |-> TRUE, code |-> 400, message |-> "Request contains an invalid argument.", status |-> "INVALID_ARGUMENT"],
     [present |-> TRUE, code |-> -1, message |-> "negative", status |-> "UNKNOWN"],
     [present |-> TRUE, code |-> 500, message |-> None, status |-> "INTERNAL"]}

\* An enterprise response body as the server wrote it.  wf: it is a JSON
\* object; missing: which of "name" / "riskAnalysis" is missing or
\* ill-typed.
EntBodies ==
    {[wf |-> FALSE, missing |-> "none", event |-> NoEvent,
      tokenProperties |-> NoTokenProps, error |-> NoApiError]}
    \cup
    {[wf |-> TRUE, missing |-> m, event |-> e, tokenProperties |-> t, error |-> x] :
        m \in {"none", "name", "riskAnalysis"}, e \in WireEvents,
        t \in WireTokenProps, x \in WireApiErrors}

\* serde_json::Error of a from_str::<T>: what was being decoded and the error
\* category
serde_json_Error(of, category) == [of |-> of, category |-> category]

\* ent.rs: #[derive(Deserialize)] struct RecaptchaEntEvent
RecaptchaEntEvent(ev) ==
    IF ~ev.present \/ ~ev.complete THEN Err("Data")
    ELSE LET a == Option_RecaptchaUserAction_deserialize(ev.expectedAction)
         IN  IF a.ok THEN Ok([expected_action |-> a.val]) ELSE Err("Data")

\* ent.rs: #[derive(Deserialize)] struct RecaptchaEntTokenProps
RecaptchaEntTokenProps(tp) ==
    IF ~tp.present \/ tp.valid \notin {"true", "false"} THEN Err("Data")
    ELSE LET r == Option_RecaptchaInvalidReason_deserialize(tp.invalidReason)
             a == Option_RecaptchaUserAction_deserialize(tp.action)
         IN  IF r.ok /\ a.ok
             THEN Ok([valid |-> tp.valid = "true", invalid_reason |-> r.val, action |-> a.val])
             ELSE Err("Data")

\* ent.rs: #[derive(Deserialize)] struct RecaptchaEntResult, through
\* serde_json::from_str; a member that is not a field ("error") is skipped
RecaptchaEntResult(body) ==
    IF ~body.wf THEN Err(serde_json_Error("RecaptchaEntResult", "Syntax"))
    ELSE LET ev == RecaptchaEntEvent(body.event)
             tp == RecaptchaEntTokenProps(body.tokenProperties)
         IN  IF body.missing = "none" /\ ev.ok /\ tp.ok
             THEN Ok([event |-> ev.val, token_properties |-> tp.val])
             ELSE Err(serde_json_Error("RecaptchaEntResult", "Data"))

\* ent.rs: #[derive(Deserialize)] struct RecaptchaEntApiError.  code is a
\* u32: a negative number does not deserialize (the HTTP-like codes the
\* bodies carry are all far below the upper end of u32)
RecaptchaEntApiError(e) ==
    IF e.present /\ e.code >= 0 /\ e.message # None /\ e.status # None
    THEN Ok([code |-> e.code, message |-> e.message, status |-> e.status])
    ELSE Err("Data")

\* ent.rs: #[derive(Deserialize)] struct RecaptchaEntApiResponse, through
\* serde_json::from_str
RecaptchaEntApiResponse(body) ==
    IF ~body.wf THEN Err(serde_json_Error("RecaptchaEntApiResponse", "Syntax"))
    ELSE LET e == RecaptchaEntApiError(body.error)
         IN  IF e.ok THEN Ok([error |-> e.val])
             ELSE Err(serde_json_Error("RecaptchaEntApiResponse", "Data"))

\* text() preceded by error_for_status(): a 4xx / 5xx answer is an error
response_text_error_for_status(response, body_res) ==
    IF response.status >= 400 THEN Err("status") ELSE body_res

\* reqwest Response::text: the body as it was received, or a reqwest::Error;
\* the response's status plays no part
response_text(response, body_res) == body_res

\* verify_enterprise_detailed reporting the failure of the first decode
verify_enterprise_detailed_first_error(send_res, body_res) ==
    IF ~send_res.ok THEN Err(RecaptchaEntError("HttpError", send_res.val))
    ELSE LET text == response_text(send_res.val, body_res)
         IN  IF ~text.ok THEN Err(RecaptchaEntError("HttpError", text.val))
             ELSE LET response_body == text.val
                      result == RecaptchaEntResult(response_body)
                  IN  IF result.ok THEN Ok(result.val)
                      ELSE LET err_response == RecaptchaEntApiResponse(response_body)
                           IN  IF ~err_response.ok
                               THEN Err(RecaptchaEntError("DecodingError", result.val))
                               ELSE Err(RecaptchaEntError("ApiError", err_response.val))

\* ent.rs: verify_enterprise_detailed
verify_enterprise_detailed(send_res, body_res) ==
    IF ~send_res.ok THEN Err(RecaptchaEntError("HttpError", send_res.val))
    ELSE LET text == response_text(send_res.val, body_res)
         IN  IF ~text.ok THEN Err(RecaptchaEntError("HttpError", text.val))
             ELSE LET response_body == text.val
                      result == RecaptchaEntResult(response_body)
                  IN  IF result.ok THEN Ok(result.val)
                      ELSE LET err_response == RecaptchaEntApiResponse(response_body)
                           IN  IF ~err_response.ok
                               THEN Err(RecaptchaEntError("DecodingError", err_response.val))
                               ELSE Err(RecaptchaEntError("ApiError", err_response.val))

\* verify_enterprise looking at invalid_reason before valid
verify_enterprise_reason_first(send_res, body_res) ==
    LET detailed == verify_enterprise_detailed(send_res, body_res)
    IN  IF ~detailed.ok THEN detailed
        ELSE LET result == detailed.val
             IN  IF result.token_properties.invalid_reason # None
                 THEN Err(RecaptchaEntError("InvalidReason", result.token_properties.invalid_reason))
                 ELSE IF result.token_properties.valid THEN Ok("()")
                 ELSE Err(RecaptchaEntError("UnknownReason", None))

\* verify_enterprise accepting an assessment that names no invalid reason
verify_enterprise_no_reason_ok(send_res, body_res) ==
    LET detailed == verify_enterprise_detailed(send_res, body_res)
    IN  IF ~detailed.ok THEN detailed
        ELSE LET result == detailed.val
             IN  IF result.token_properties.valid
                    \/ result.token_properties.invalid_reason = None
                 THEN Ok("()")
                 ELSE Err(RecaptchaEntError("InvalidReason", result.token_properties.invalid_reason))

\* ent.rs: verify_enterprise
verify_enterprise(send_res, body_res) ==
    LET detailed == verify_enterprise_detailed(send_res, body_res)
    IN  IF ~detailed.ok THEN detailed
        ELSE LET result == detailed.val
             IN  IF result.token_properties.valid THEN Ok("()")
                 ELSE IF result.token_properties.invalid_reason # None
                 THEN Err(RecaptchaEntError("InvalidReason", result.token_properties.invalid_reason))
                 ELSE Err(RecaptchaEntError("UnknownReason", None))

\* ------------------------------------------------------------ state machine
\* a transport result that has not arrived
Pending == [ok |-> FALSE, val |-> "pending"]

NoRequest == <<>>

LegacyFns == {"verify_v3", "v3_verify", "verify"}
EntFns == {"verify_enterprise", "verify_enterprise_detailed"}

\* the function in progress, applied to what the transport gave it
Run(f, send_res, body_res) ==
    CASE f = "verify_v3" -> verify_v3(send_res, body_res)
      [] f = "v3_verify" -> v3_verify(send_res, body_res)
      [] f = "verify" -> verify(send_res, body_res)
      [] f = "verify_enterprise" -> verify_enterprise(send_res, body_res)
      [] f = "verify_enterprise_detailed" -> verify_enterprise_detailed(send_res, body_res)

\* v3.rs / lib.rs: the form parameters, remoteip only when an address is given
LegacyParams(remoteip) ==
    IF remoteip = None
    THEN <<<<"secret", "secret">>, <<"response", "token">>>>
    ELSE <<<<"secret", "secret">>, <<"response", "token">>, <<"remoteip", remoteip>>>>

\* ent.rs: the json! request of verify_enterprise_detailed
EntRequest(action) ==
    [token |-> "token", site_key |-> "site_key",
     expected_action |-> IF action = None THEN None
                         ELSE RecaptchaUserAction_to_string(action)]

Init ==
    /\ pc = "idle"
    /\ call = "none"
    /\ request = NoRequest
    /\ sendRes = Pending
    /\ bodyRes = Pending
    /\ ret = Pending
    /\ conv = <<>>

\* a caller enters one of the legacy functions; the request is built and sent
CallLegacy ==
    /\ pc = "idle"
    /\ \E f \in LegacyFns, remoteip \in {None, "127.0.0.1"} :
          /\ call' = f
          /\ request' = LegacyParams(remoteip)
    /\ pc' = "send"
    /\ UNCHANGED <<sendRes, bodyRes, ret, conv>>

\* a caller enters one of the enterprise functions
CallEnterprise ==
    /\ pc = "idle"
    /\ \E f \in EntFns, action \in {None, "Login"} :
          /\ call' = f
          /\ request' = EntRequest(action)
    /\ pc' = "send"
    /\ UNCHANGED <<sendRes, bodyRes, ret, conv>>

\* send().await fails: the function returns at its first `?`
SendFail ==
    /\ pc = "send"
    /\ \E e \in SendFailures :
          /\ sendRes' = Err(e)
          /\ ret' = Run(call, Err(e), Pending)
    /\ pc' = "done"
    /\ UNCHANGED <<call, request, bodyRes, conv>>

\* send().await yields a response: its status and the body the server sends
SendOk ==
    /\ pc = "send"
    /\ \E st \in HttpStatuses,
          body \in (IF call \in LegacyFns THEN LegacyBodies ELSE EntBodies) :
          sendRes' = Ok([status |-> st, body |-> body])
    /\ pc' = "recv"
    /\ UNCHANGED <<call, request, bodyRes, ret, conv>>

\* the body arrives whole; the function decodes, classifies and returns
RecvOk ==
    /\ pc = "recv"
    /\ bodyRes' = Ok(sendRes.val.body)
    /\ ret' = Run(call, sendRes, Ok(sendRes.val.body))
    /\ pc' = "done"
    /\ UNCHANGED <<call, request, sendRes, conv>>

\* reading the body fails (connection lost, deadline elapsed)
RecvFail ==
    /\ pc = "recv"
    /\ \E e \in BodyFailures :
          /\ bodyRes' = Err(e)
          /\ ret' = Run(call, sendRes, Err(e))
    /\ pc' = "done"
    /\ UNCHANGED <<call, request, sendRes, conv>>

\* values the conversions of the closed vocabularies work on
Variant(type, v) == [k |-> type, v |-> v]
Str(s) == [k |-> "String", v |-> s]
Failed(e) == [k |-> e.tag, v |-> e.payload]

ConvStrings ==
    {"signup", "login", "password_reset", "get_price", "cart_add", "cart_view",
     "payment_add", "checkout", "transaction_confirmed", "play_song",
     "homepage", "LOGIN",
     "AUTOMATION", "UNEXPECTED_ENVIRONMENT", "TOO_MUCH_TRAFFIC",
     "UNEXPECTED_USAGE_PATTERNS", "LOW_CONFIDENCE_SCORE", "MALFORMED",
     "EXPIRED", "automation"}

\* how many values a chain of conversions holds: the input and two results
ChainLen == 3

Last(q) == q[Len(q)]

\* a caller starts converting a variant or a string of one vocabulary
ConvStart ==
    /\ pc = "idle"
    /\ \E type \in {"RecaptchaUserAction", "RecaptchaInvalidReason"} :
          /\ call' = type
          /\ \/ \E v \in (IF type = "RecaptchaUserAction" THEN UserActions ELSE InvalidReasons) :
                   conv' = <<Variant(type, v)>>
             \/ \E s \in ConvStrings : conv' = <<Str(s)>>
    /\ pc' = "conv"
    /\ UNCHANGED <<request, sendRes, bodyRes, ret>>

UserAction_to_string ==
    /\ pc = "conv" /\ Len(conv) < ChainLen
    /\ Last(conv).k = "RecaptchaUserAction"
    /\ conv' = Append(conv, Str(RecaptchaUserAction_to_string(Last(conv).v)))
    /\ UNCHANGED <<pc, call, request, sendRes, bodyRes, ret>>

UserAction_try_from ==
    /\ pc = "conv" /\ Len(conv) < ChainLen
    /\ call = "RecaptchaUserAction" /\ Last(conv).k = "String"
    /\ LET r == RecaptchaUserAction_try_from(Last(conv).v)
       IN  conv' = Append(conv, IF r.ok THEN Variant("RecaptchaUserAction", r.val)
                                ELSE Failed(r.val))
    /\ UNCHANGED <<pc, call, request, sendRes, bodyRes, ret>>

InvalidReason_to_string ==
    /\ pc = "conv" /\ Len(conv) < ChainLen
    /\ Last(conv).k = "RecaptchaInvalidReason"
    /\ conv' = Append(conv, Str(RecaptchaInvalidReason_to_string(Last(conv).v)))
    /\ UNCHANGED <<pc, call, request, sendRes, bodyRes, ret>>

InvalidReason_try_from ==
    /\ pc = "conv" /\ Len(conv) < ChainLen
    /\ call = "RecaptchaInvalidReason" /\ Last(conv).k = "String"
    /\ LET r == RecaptchaInvalidReason_try_from(Last(conv).v)
       IN  conv' = Append(conv, IF r.ok THEN Variant("RecaptchaInvalidReason", r.val)
                                ELSE Failed(r.val))
    /\ UNCHANGED <<pc, call, request, sendRes, bodyRes, ret>>

\* the caller takes the result; nothing of the call survives it
Return ==
    /\ pc \in {"done", "conv"}
    /\ pc' = "idle"
    /\ call' = "none"
    /\ request' = NoRequest
    /\ sendRes' = Pending
    /\ bodyRes' = Pending
    /\ ret' = Pending
    /\ conv' = <<>>

Next ==
    \/ CallLegacy
    \/ CallEnterprise
    \/ SendFail
    \/ SendOk
    \/ RecvOk
    \/ RecvFail
    \/ ConvStart
    \/ UserAction_to_string
    \/ UserAction_try_from
    \/ InvalidReason_to_string
    \/ InvalidReason_try_from
    \/ Return

Spec == Init /\ [][Next]_vars

\* ------------------------------------------------------------- properties
\* a legacy call has returned after the body was received whole
LegacyReturned == pc = "done" /\ call \in LegacyFns /\ sendRes.ok /\ bodyRes.ok

\* an enterprise call has returned after the body was received whole
EntReturned == pc = "done" /\ call \in EntFns /\ sendRes.ok /\ bodyRes.ok

\* the body has the legacy response shape the function f declares: a JSON
\* object with a boolean success and, if present, a list of strings under
\* error-codes (and, for lib.rs, strings under the three other members)
LegacyShape(f, b) ==
    /\ b.wf
    /\ b.success \in {"true", "false"}
    /\ b.codes \in {"absent", "null", "list"}
    /\ f = "verify" => b.extra # "num"

\* the reason variant each recognised legacy code stands for
LegacyReasonOf ==
    ("missing-input-secret" :> "MissingInputSecret") @@
    ("invalid-input-secret" :> "InvalidInputSecret") @@
    ("missing-input-response" :> "MissingInputResponse") @@
    ("invalid-input-response" :> "InvalidInputResponse") @@
    ("bad-request" :> "BadRequest") @@
    ("timeout-or-duplicate" :> "TimeoutOrDuplicate")

\* C1: in the legacy flow, a body that decodes with success == true makes the
\* call return Ok(()), whatever the error-codes member holds (absent, null,
\* empty, recognised or unrecognised codes).
C1_SuccessReturnsValid ==
    (LegacyReturned /\ LegacyShape(call, bodyRes.val) /\ bodyRes.val.success = "true")
        => ret.ok

\* a successful response that also carries an unrecognised and a recognised
\* error code was accepted
C1_Witness ==
    /\ LegacyReturned
    /\ LegacyShape(call, bodyRes.val)
    /\ bodyRes.val.success = "true"
    /\ bodyRes.val.list = <<"trololo-detected", "invalid-input-secret">>
    /\ ret.ok

\* C2: in the legacy flow, success == false with a non-empty error-codes list
\* yields the error of the list's first element alone: a recognised code
\* gives its variant, any other string s gives Unknown(Some(s)).
C2_FirstCodeDecides ==
    (/\ LegacyReturned
     /\ LegacyShape(call, bodyRes.val)
     /\ bodyRes.val.success = "false"
     /\ bodyRes.val.codes = "list"
     /\ bodyRes.val.list # <<>>)
        => LET first == bodyRes.val.list[1]
           IN  /\ ~ret.ok
               /\ IF first \in DOMAIN LegacyReasonOf
                  THEN ret.val.tag = LegacyReasonOf[first] /\ ret.val.code = None
                  ELSE ret.val.tag = "Unknown" /\ ret.val.code = first

\* an unrecognised first code followed by a recognised one came back as
\* Unknown carrying the first
C2_Witness ==
    /\ LegacyReturned
    /\ bodyRes.val.success = "false"
    /\ bodyRes.val.list = <<"trololo-detected", "bad-request">>
    /\ ~ret.ok
    /\ ret.val.tag = "Unknown"
    /\ ret.val.code = "trololo-detected"

\* C3: in the legacy flow, once the response was received, a body that does
\* not decode, or decodes with success == false and no error-codes member, or
\* with success == false and an empty error-codes list, yields Unknown(None).
C3_UnknownNone ==
    (/\ LegacyReturned
     /\ \/ ~LegacyShape(call, bodyRes.val)
        \/ /\ bodyRes.val.success = "false"
           /\ bodyRes.val.codes \in {"absent", "null"}
        \/ /\ bodyRes.val.success = "false"
           /\ bodyRes.val.codes = "list"
           /\ bodyRes.val.list = <<>>)
        => /\ ~ret.ok
           /\ ret.val.tag = "Unknown"
           /\ ret.val.code = None

\* a body whose success member is not a boolean came back as Unknown(None)
C3_Witness ==
    /\ LegacyReturned
    /\ bodyRes.val.wf
    /\ bodyRes.val.success = "other"
    /\ ~ret.ok
    /\ ret.val.tag = "Unknown"
    /\ ret.val.code = None

\* wire strings of the ten user actions and of the six invalid reasons
UserActionWire ==
    {"signup", "login", "password_reset", "get_price", "cart_add", "cart_view",
     "payment_add", "checkout", "transaction_confirmed", "play_song"}

InvalidReasonOfWire ==
    ("AUTOMATION" :> "Automation") @@
    ("UNEXPECTED_ENVIRONMENT" :> "UnexpectedEnvironment") @@
    ("TOO_MUCH_TRAFFIC" :> "TooMuchTraffic") @@
    ("UNEXPECTED_USAGE_PATTERNS" :> "UnexpectedUsagePatterns") @@
    ("LOW_CONFIDENCE_SCORE" :> "LowConfidenceScore") @@
    ("MALFORMED" :> "Malformed")

\* the body is an assessment but for the strings under invalidReason,
\* action and expectedAction: name, event with its four strings,
\* riskAnalysis and tokenProperties with a boolean valid are there
AssessmentFrame(b) ==
    /\ b.wf
    /\ b.missing = "none"
    /\ b.event.present /\ b.event.complete
    /\ b.tokenProperties.present
    /\ b.tokenProperties.valid \in {"true", "false"}

\* the body decodes as an assessment: the frame, with every vocabulary
\* string inside its closed set
AssessmentShape(b) ==
    /\ AssessmentFrame(b)
    /\ b.event.expectedAction \in UserActionWire \cup {None}
    /\ b.tokenProperties.action \in UserActionWire \cup {None}
    /\ b.tokenProperties.invalidReason \in DOMAIN InvalidReasonOfWire \cup {None}

\* the body decodes as the API-error envelope {error:{code,message,status}}
EnvelopeShape(b) ==
    /\ b.wf
    /\ b.error.present
    /\ b.error.code >= 0
    /\ b.error.message # None
    /\ b.error.status # None

\* C4: verify_enterprise, on a body that decodes as an assessment: valid ==
\* true gives Ok(()) whatever invalidReason holds; otherwise a present
\* invalidReason r gives InvalidReason(r); otherwise UnknownReason.
C4_EnterpriseClassification ==
    (EntReturned /\ call = "verify_enterprise" /\ AssessmentShape(bodyRes.val))
        => LET tp == bodyRes.val.tokenProperties
           IN  IF tp.valid = "true" THEN ret.ok
               ELSE IF tp.invalidReason # None
               THEN /\ ~ret.ok
                    /\ ret.val.tag = "InvalidReason"
                    /\ ret.val.payload = InvalidReasonOfWire[tp.invalidReason]
               ELSE /\ ~ret.ok
                    /\ ret.val.tag = "UnknownReason"

\* a valid token whose assessment also names an invalid reason was accepted
C4_Witness ==
    /\ EntReturned
    /\ call = "verify_enterprise"
    /\ AssessmentShape(bodyRes.val)
    /\ bodyRes.val.tokenProperties.valid = "true"
    /\ bodyRes.val.tokenProperties.invalidReason = "AUTOMATION"
    /\ ret.ok

\* C5: in the enterprise flow the assessment shape is tried first and the
\* API-error envelope second; a body that is not an assessment but is an
\* envelope gives ApiError with exactly its code, message and status, for
\* every HTTP status of the response.
C5_ApiErrorEnvelope ==
    /\ (EntReturned /\ ~AssessmentShape(bodyRes.val) /\ EnvelopeShape(bodyRes.val))
          => /\ ~ret.ok
             /\ ret.val.tag = "ApiError"
             /\ ret.val.payload.error.code = bodyRes.val.error.code
             /\ ret.val.payload.error.message = bodyRes.val.error.message
             /\ ret.val.payload.error.status = bodyRes.val.error.status
    /\ (EntReturned /\ AssessmentShape(bodyRes.val) /\ EnvelopeShape(bodyRes.val))
          => (ret.ok \/ ret.val.tag # "ApiError")

\* the documented INVALID_ARGUMENT envelope, answered with status 400, came
\* back as ApiError
C5_Witness ==
    /\ EntReturned
    /\ sendRes.val.status = 400
    /\ ~AssessmentShape(bodyRes.val)
    /\ bodyRes.val.error.present
    /\ bodyRes.val.error.code = 400
    /\ ~ret.ok
    /\ ret.val.tag = "ApiError"
    /\ ret.val.payload.error.status = "INVALID_ARGUMENT"

\* what an error value hands to the caller
Carried(e) == {e.payload}

\* the failure description of decoding body b as the named shape
FailureOf(shape, b) == serde_json_Error(shape, IF b.wf THEN "Data" ELSE "Syntax")

C7_UnknownReasonOutcome ==
    (/\ EntReturned
     /\ call = "verify_enterprise"
     /\ AssessmentFrame(bodyRes.val)
     /\ bodyRes.val.event.expectedAction \in UserActionWire \cup {None}
     /\ bodyRes.val.tokenProperties.action \in UserActionWire \cup {None}
     /\ bodyRes.val.tokenProperties.valid = "false"
     /\ bodyRes.val.tokenProperties.invalidReason \notin DOMAIN InvalidReasonOfWire \cup {None})
        => /\ ~ret.ok
           /\ ret.val.tag = "UnknownReason"

\* C8: in both flows a transport failure, while sending or while receiving
\* the body, ends the call with HttpError.
C8_TransportFailureSurfaced ==
    (pc = "done" /\ (~sendRes.ok \/ ~bodyRes.ok))
        => /\ ~ret.ok
           /\ ret.val.tag = "HttpError"

\* the vocabulary a finished chain of conversions belongs to
ConvVariants == IF call = "RecaptchaUserAction" THEN UserActions ELSE InvalidReasons
ConvWire == IF call = "RecaptchaUserAction" THEN UserActionWire ELSE DOMAIN InvalidReasonOfWire
ConvToString(v) ==
    IF call = "RecaptchaUserAction" THEN RecaptchaUserAction_to_string(v)
    ELSE RecaptchaInvalidReason_to_string(v)

\* C9: for the ten user actions and the six invalid reasons, to_string then
\* try_from gives back the variant, try_from then to_string gives back the
\* wire string (each wire string does parse), and no other variant of the
\* vocabulary has the wire string a variant was converted to.
C9_RoundTrip ==
    pc = "conv" =>
        /\ (Len(conv) >= 3 /\ conv[1].k = call) => conv[3] = conv[1]
        /\ (Len(conv) >= 2 /\ conv[1].k = "String" /\ conv[1].v \in ConvWire)
              => conv[2].k = call
        /\ (Len(conv) >= 3 /\ conv[1].k = "String" /\ conv[2].k = call)
              => conv[3] = conv[1]
        /\ (Len(conv) >= 2 /\ conv[1].k = call)
              => \A w \in ConvVariants \ {conv[1].v} : ConvToString(w) # conv[2].v

\* CartView was converted to its wire string and parsed back
C9_Witness ==
    /\ pc = "conv"
    /\ Len(conv) >= 3
    /\ conv[1] = Variant("RecaptchaUserAction", "CartView")
    /\ conv[2].k = "String"
    /\ conv[3] = conv[1]

\* C10: in the enterprise flow an otherwise well-formed assessment whose
\* tokenProperties.action or event.expectedAction is a string outside the
\* user-action vocabulary is still decoded as an assessment and classified
\* from valid / invalidReason.
C10_LenientInboundAction ==
    (/\ EntReturned
     /\ AssessmentFrame(bodyRes.val)
     /\ bodyRes.val.tokenProperties.invalidReason \in DOMAIN InvalidReasonOfWire \cup {None}
     /\ \/ bodyRes.val.tokenProperties.action \notin UserActionWire \cup {None}
        \/ bodyRes.val.event.expectedAction \notin UserActionWire \cup {None})
        => LET tp == bodyRes.val.tokenProperties
           IN  IF call = "verify_enterprise_detailed" THEN ret.ok
               ELSE IF tp.valid = "true" THEN ret.ok
               ELSE /\ ~ret.ok
                    /\ ret.val.tag = (IF tp.invalidReason # None THEN "InvalidReason"
                                      ELSE "UnknownReason")

\* C11: verify_v3 / verify and verify_enterprise return Ok(()) only if the
\* request was sent and the body received, the body decoded as the flow's
\* success shape, and the decoded flag (success, tokenProperties.valid) is
\* true; a transport failure, a decode failure, an API-error envelope that
\* is not an assessment, or a false flag never gives Ok(()).
C11_NoFalseAccept ==
    (pc = "done" /\ call \in LegacyFns \cup {"verify_enterprise"} /\ ret.ok)
        => /\ sendRes.ok
           /\ bodyRes.ok
           /\ IF call \in LegacyFns
              THEN /\ LegacyShape(call, bodyRes.val)
                   /\ bodyRes.val.success = "true"
              ELSE /\ AssessmentShape(bodyRes.val)
                   /\ bodyRes.val.tokenProperties.valid = "true"

\* verify_enterprise accepted a token whose assessment is valid, names no
\* invalid reason and echoes the login action
C11_Witness ==
    /\ pc = "done"
    /\ call = "verify_enterprise"
    /\ sendRes.ok /\ bodyRes.ok
    /\ bodyRes.val.tokenProperties.valid = "true"
    /\ bodyRes.val.tokenProperties.invalidReason = None
    /\ bodyRes.val.tokenProperties.action = "login"
    /\ ret.ok
====
